---- MODULE Spec2Model ----
(***************************************************************************)
(* A model of mido's PortMidi backend (src/mido/portmidi.py): device        *)
(* lookup, the Port life cycle (constructor, close, __del__, __enter__,     *)
(* __exit__), and Input.poll / Input.receive on top of the native driver    *)
(* and the byte-stream Parser.                                              *)
(*                                                                          *)
(* The native driver (pm.lib) is the environment.  What it returns from a   *)
(* call is an input of the action that makes the call; the state it keeps   *)
(* (the opened flag of each device info, the open streams, the queue of     *)
(* events of an input stream) is part of the model state.                   *)
(***************************************************************************)
EXTENDS Integers, Sequences, FiniteSets, TLC

\* ------------------------------------------------------------------ bounds
\* Number of Port objects that are ever constructed.
MaxPorts == 2
\* Number of events the driver ever queues on one input stream.
MaxEvents == 3
\* Longest byte sequence of an ordinary message handed to send().
MaxMsgLen == 5
\* Number of Pm_Close calls counted for one port; close() is not called
\* again on a port that reached it.
MaxCloseCalls == 2

Ports == 1..MaxPorts

\* ---------------------------------------------------------------- registry
\* Python's None, as the constructor's name argument.
None == "None"

\* The driver's device table, in device_id order (device_id = index - 1).
\* PortMidi gives every device exactly one direction.  Two input devices
\* share the name "A", an output device has that name too, and "B" exists
\* as an output only.
DeviceTable ==
  << [interface |-> "ALSA", name |-> "A", is_input |-> TRUE,  is_output |-> FALSE],
     [interface |-> "ALSA", name |-> "A", is_input |-> TRUE,  is_output |-> FALSE],
     [interface |-> "ALSA", name |-> "A", is_input |-> FALSE, is_output |-> TRUE],
     [interface |-> "ALSA", name |-> "B", is_input |-> FALSE, is_output |-> TRUE] >>

Pm_CountDevices == Len(DeviceTable)

DeviceIds == 0..(Pm_CountDevices - 1)

\* The names a constructor is called with: None (default device), names of
\* the table, and a name that is in no record.
Names == {None, "A", "B", "Ghost"}

Classes == {"Input", "Output"}

\* What Pm_GetDefaultInputDeviceID / Pm_GetDefaultOutputDeviceID may answer:
\* pmNoDevice (negative), a device of that direction, or an id the driver
\* then has no info for.
DefaultIds(c) ==
  IF c = "Input" THEN {-1, 0, Pm_CountDevices} ELSE {-1, 2, Pm_CountDevices}

\* Return codes of Pm_OpenInput, Pm_OpenOutput and Pm_Close: pmNoError or a
\* negative PmError.
DriverReturns == {0, -1}

VARIABLES
  initialized,   \* module global _initialized
  pmInitCalls,   \* driver: has Pm_Initialize been called
  drvOpened,     \* driver: info.opened of each device id
  drvStreams,    \* driver: the stream handles that are open
  life,          \* per port object: "unborn", "live", "failed" (constructor raised), "dead"
  cls,           \* per port: its class, "Input" or "Output"
  name,          \* per port: self.name
  closed,        \* per port: self.closed
  device,        \* per port: self.device, <<>> for None, else <<DeviceInfo>>
  stream,        \* per port: self._stream, 0 for the null pointer, else the handle
  scope,         \* per port: "out", "in" (between __enter__ and __exit__), "exited"
  closeCalls,    \* history: how many times Pm_Close was called with the port's stream
  inprog,        \* per port: Parser, bytes of the message in progress
  parsed,        \* per port: Parser._parsed_messages
  arrived,       \* driver: every event queued on the port's stream, in arrival order
  nread,         \* driver: how many of them Pm_Read has handed out
  received,      \* history: the messages receive() has returned, in order
  pc,            \* per port: "idle", or "waiting" inside receive()'s loop
  credit,        \* history: last poll() result minus the receive() returns since, -1 if none
  lastOp         \* the operation of the last step and what it observed

lifeVars == <<initialized, pmInitCalls, drvOpened, drvStreams, life, cls, name,
              closed, device, stream, scope, closeCalls>>
ioVars == <<inprog, parsed, arrived, nread, received, pc, credit>>
vars == <<lifeVars, ioVars, lastOp>>

\* The record an operation leaves in lastOp: arg is its argument (the name
\* given to a constructor, the message given to send), wasClosed is self.closed when it began, error
\* names the exception it raised ("none" if it returned), result is <<>> for
\* None or no value, else <<value>> (for a constructor: the return code of
\* the stream-open call, if it was made; for send: the timestamp and data of
\* the driver write, if it was made), calls is the sequence of driver
\* calls it made (device queries left out), slept says whether it slept.
Op(o, p, a, wasClosed, err, res, cs, sl) ==
  [op |-> o, port |-> p, arg |-> a, wasClosed |-> wasClosed, error |-> err,
   result |-> res, calls |-> cs, slept |-> sl]

\* ------------------------------------------------------------- _check_error
\* _check_error raises IOError iff the return value is negative.
CheckErrorRaises(return_value) == return_value < 0

\* --------------------------------------------------------------- _initialize
\* _initialize(): the body runs when the flag is already set.
InitializeRuns(flag) == flag

\* ---------------------------------------------------------------- DeviceInfo
\* Pm_GetDeviceInfo: <<info>>, or <<>> (null pointer) for an id out of range.
Pm_GetDeviceInfo(device_id, flags) ==
  IF device_id \in DeviceIds
  THEN << [interface |-> DeviceTable[device_id + 1].interface,
           name      |-> DeviceTable[device_id + 1].name,
           is_input  |-> DeviceTable[device_id + 1].is_input,
           is_output |-> DeviceTable[device_id + 1].is_output,
           opened    |-> flags[device_id]] >>
  ELSE << >>

\* DeviceInfo(device_id): a fresh snapshot of the driver's info, <<>> when
\* the constructor raises (no info for that id).
DeviceInfo(device_id, flags) ==
  LET info_pointer == Pm_GetDeviceInfo(device_id, flags) IN
  IF info_pointer = << >>
  THEN << >>
  ELSE << [device_id |-> device_id,
           interface |-> info_pointer[1].interface,
           name      |-> info_pointer[1].name,
           is_input  |-> info_pointer[1].is_input,
           is_output |-> info_pointer[1].is_output,
           opened    |-> info_pointer[1].opened] >>

\* get_devices(): one DeviceInfo per device id, in id order.
get_devices(flags) ==
  [i \in 1..Pm_CountDevices |-> DeviceInfo(i - 1, flags)[1]]

\* ------------------------------------------------- Port.__init__: selection
\* Fault variant: the type of the device is not looked at.
NoTypeCheck(this_is_input, d) == FALSE

\* "Skip if device is the wrong type".
WrongType(this_is_input, d) ==
  IF this_is_input THEN d.is_output ELSE d.is_input

\* Fault variant: a matching record that is opened is skipped, and the scan
\* goes on to the next record.
RECURSIVE LookupSkipsOpened(_, _, _, _)
LookupSkipsOpened(devs, i, nm, this_is_input) ==
  IF i > Len(devs)
  THEN [error |-> "UnknownPort", device |-> << >>]
  ELSE IF devs[i].name # nm \/ WrongType(this_is_input, devs[i]) \/ devs[i].opened
  THEN LookupSkipsOpened(devs, i + 1, nm, this_is_input)
  ELSE [error |-> "none", device |-> << devs[i] >>]

\* The for/else over get_devices(): the first record with the name and the
\* type decides; error is "none" iff a device is bound.
RECURSIVE LookupByName(_, _, _, _)
LookupByName(devs, i, nm, this_is_input) ==
  IF i > Len(devs)
  THEN [error |-> "UnknownPort", device |-> << >>]
  ELSE IF devs[i].name # nm
  THEN LookupByName(devs, i + 1, nm, this_is_input)
  ELSE IF WrongType(this_is_input, devs[i])
  THEN LookupByName(devs, i + 1, nm, this_is_input)
  ELSE IF devs[i].opened
  THEN [error |-> "PortAlreadyOpen", device |-> << >>]
  ELSE [error |-> "none", device |-> << devs[i] >>]

\* The device the constructor selects, before it opens the stream.
\* default_id is the driver's answer to Pm_GetDefault{Input,Output}DeviceID.
SelectDevice(c, nm, default_id, flags) ==
  IF nm = None
  THEN IF default_id < 0
       THEN [error |-> "NoDefaultDevice", device |-> << >>]
       ELSE IF DeviceInfo(default_id, flags) = << >>
       THEN [error |-> "DeviceNotFound", device |-> << >>]
       ELSE [error |-> "none", device |-> DeviceInfo(default_id, flags)]
  ELSE LookupByName(get_devices(flags), 1, nm, c = "Input")

\* Fault variant: the return of the stream-open call is not checked.
OpenUnchecked(rc) == TRUE

\* The stream-open call succeeded: _check_error did not raise.
OpenSucceeds(rc) == ~CheckErrorRaises(rc)

\* --------------------------------------------------------------------- Init
Init ==
  /\ initialized = FALSE
  /\ pmInitCalls = 0
  /\ drvOpened = [d \in DeviceIds |-> FALSE]
  /\ drvStreams = {}
  /\ life = [p \in Ports |-> "unborn"]
  /\ cls = [p \in Ports |-> "Input"]
  /\ name = [p \in Ports |-> None]
  /\ closed = [p \in Ports |-> TRUE]
  /\ device = [p \in Ports |-> << >>]
  /\ stream = [p \in Ports |-> 0]
  /\ scope = [p \in Ports |-> "out"]
  /\ closeCalls = [p \in Ports |-> 0]
  /\ inprog = [p \in Ports |-> << >>]
  /\ parsed = [p \in Ports |-> << >>]
  /\ arrived = [p \in Ports |-> << >>]
  /\ nread = [p \in Ports |-> 0]
  /\ received = [p \in Ports |-> << >>]
  /\ pc = [p \in Ports |-> "idle"]
  /\ credit = [p \in Ports |-> -1]
  /\ lastOp = Op("init", 0, None, TRUE, "none", << >>, << >>, FALSE)

\* ------------------------------------------------------------ Port.__init__
\* Input(nm) / Output(nm) constructing port object p.  default_id and rc are
\* the driver's answers (default device id, return of Pm_OpenInput/Output).
\* Port objects are numbered in the order they are constructed.
PortInit(p, c, nm, default_id, rc) ==
  LET sel == SelectDevice(c, nm, default_id, drvOpened)
      initCalls == IF InitializeRuns(initialized) THEN << "Pm_Initialize" >> ELSE << >>
      openCall == IF c = "Input" THEN "Pm_OpenInput" ELSE "Pm_OpenOutput"
  IN
  /\ life[p] = "unborn"
  /\ \A q \in Ports : q < p => life[q] # "unborn"
  /\ cls' = [cls EXCEPT ![p] = c]
  /\ IF InitializeRuns(initialized)
     THEN /\ pmInitCalls' = pmInitCalls + 1
          /\ initialized' = TRUE
     ELSE UNCHANGED <<pmInitCalls, initialized>>
  /\ IF sel.error # "none"
     THEN \* raised during selection: closed stays True
          /\ life' = [life EXCEPT ![p] = "failed"]
          /\ name' = [name EXCEPT ![p] = nm]
          /\ device' = [device EXCEPT ![p] = << >>]
          /\ UNCHANGED <<closed, stream, drvOpened, drvStreams>>
          /\ lastOp' = Op("open", p, nm, TRUE, sel.error, << >>, initCalls, FALSE)
     ELSE /\ name' = [name EXCEPT ![p] = IF nm = None THEN sel.device[1].name ELSE nm]
          /\ IF OpenSucceeds(rc)
             THEN /\ life' = [life EXCEPT ![p] = "live"]
                  /\ stream' = [stream EXCEPT ![p] = p]
                  /\ closed' = [closed EXCEPT ![p] = FALSE]
                  /\ device' = [device EXCEPT ![p] =
                                  << [sel.device[1] EXCEPT !.opened = TRUE] >>]
                  \* the driver marks the device opened and keeps the stream
                  /\ drvOpened' = [drvOpened EXCEPT ![sel.device[1].device_id] = TRUE]
                  /\ drvStreams' = drvStreams \cup {p}
                  /\ lastOp' = Op("open", p, nm, TRUE, "none", << rc >>,
                                  Append(initCalls, openCall), FALSE)
             ELSE \* _check_error raised
                  /\ life' = [life EXCEPT ![p] = "failed"]
                  /\ device' = [device EXCEPT ![p] = sel.device]
                  /\ UNCHANGED <<closed, stream, drvOpened, drvStreams>>
                  /\ lastOp' = Op("open", p, nm, TRUE, "NativeDriverError", << rc >>,
                                  Append(initCalls, openCall), FALSE)
  /\ UNCHANGED <<scope, closeCalls, ioVars>>

\* --------------------------------------------------------------- Port.close
\* Fault variant: close() does not look at self.closed.
CloseAlways(is_closed) == TRUE

\* close() does something only when the port is not closed.
CloseNeeded(is_closed) == ~is_closed

\* The body of close() on port p, run as operation o ("close" or "del");
\* rc is the driver's return from Pm_Close.
CloseBody(p, rc, o) ==
  IF ~CloseNeeded(closed[p])
  THEN /\ UNCHANGED <<closed, device, drvOpened, drvStreams, closeCalls>>
       /\ lastOp' = Op(o, p, None, closed[p], "none", << >>, << >>, FALSE)
  ELSE /\ closeCalls[p] < MaxCloseCalls
       /\ closeCalls' = [closeCalls EXCEPT ![p] = @ + 1]
       /\ IF CheckErrorRaises(rc)
          THEN \* _check_error raised before the state is touched
               /\ UNCHANGED <<closed, device, drvOpened, drvStreams>>
               /\ lastOp' = Op(o, p, None, closed[p], "NativeDriverError", << >>,
                               << "Pm_Close" >>, FALSE)
          ELSE /\ closed' = [closed EXCEPT ![p] = TRUE]
               /\ device' = [device EXCEPT ![p] =
                               IF @ = << >> THEN @ ELSE << [@[1] EXCEPT !.opened = FALSE] >>]
               \* the driver releases the stream and clears the device's opened flag
               /\ drvOpened' = IF device[p] = << >> THEN drvOpened
                               ELSE [drvOpened EXCEPT ![device[p][1].device_id] = FALSE]
               /\ drvStreams' = drvStreams \ {stream[p]}
               /\ lastOp' = Op(o, p, None, closed[p], "none", << >>, << "Pm_Close" >>, FALSE)

\* port.close() called by the program on a port it holds.
Close(p, rc) ==
  /\ life[p] = "live"
  /\ CloseBody(p, rc, "close")
  /\ UNCHANGED <<initialized, pmInitCalls, life, cls, name, stream, scope, ioVars>>

\* __del__: the object is collected (also one whose constructor raised);
\* not while a with block or a receive() holds it.
Del(p, rc) ==
  /\ life[p] \in {"live", "failed"}
  /\ scope[p] # "in"
  /\ pc[p] = "idle"
  /\ CloseBody(p, rc, "del")
  /\ life' = [life EXCEPT ![p] = "dead"]
  /\ UNCHANGED <<initialized, pmInitCalls, cls, name, stream, scope, ioVars>>

\* ------------------------------------------------------ __enter__ / __exit__
\* __enter__ returns self.
Enter(p) ==
  /\ life[p] = "live"
  /\ scope[p] = "out"
  /\ scope' = [scope EXCEPT ![p] = "in"]
  /\ lastOp' = Op("enter", p, None, closed[p], "none", << >>, << >>, FALSE)
  /\ UNCHANGED <<initialized, pmInitCalls, drvOpened, drvStreams, life, cls, name,
                 closed, device, stream, closeCalls, ioVars>>

\* Leaving the with block, normally or (exc) by an exception: __exit__
\* returns False, so an exception propagates, and does nothing else.
Exit(p, exc) ==
  /\ life[p] = "live"
  /\ scope[p] = "in"
  /\ pc[p] = "idle"
  /\ scope' = [scope EXCEPT ![p] = "exited"]
  /\ lastOp' = Op("exit", p, None, closed[p], IF exc THEN "propagated" ELSE "none",
                  << >>, << >>, FALSE)
  /\ UNCHANGED <<initialized, pmInitCalls, drvOpened, drvStreams, life, cls, name,
                 closed, device, stream, closeCalls, ioVars>>

\* --------------------------------------------------------------------- Spec
NewPort(p) ==
  \E c \in Classes, nm \in Names, rc \in DriverReturns :
    \E default_id \in DefaultIds(c) : PortInit(p, c, nm, default_id, rc)

\* close() and __del__ with whatever Pm_Close returns.
ClosePort(p) == \E rc \in DriverReturns : Close(p, rc)

Collect(p) == \E rc \in DriverReturns : Del(p, rc)

\* close() and __del__ with Pm_Close returning pmNoError.
CloseClean(p) == Close(p, 0)

CollectClean(p) == Del(p, 0)

LeaveScope(p) == \E exc \in BOOLEAN : Exit(p, exc)

\* Every port, with a driver whose Pm_Close succeeds (a failing Pm_Close
\* leaves a port as it was; SpecClose explores it).
Next ==
  \E p \in Ports :
    \/ NewPort(p)
    \/ CloseClean(p)
    \/ CollectClean(p)
    \/ Enter(p)
    \/ LeaveScope(p)

Spec == Init /\ [][Next]_vars

\* ------------------------------------------------------------------- Parser
\* The byte-stream Parser (mido.parser), by its contract: a state is
\* [inprog, parsed]; feed_byte extends the message in progress, completes it,
\* or discards a byte that extends nothing; get_message pops the oldest
\* parsed message.  A message is its sequence of bytes.

\* Bytes of the message a status byte starts (sysex, 240, runs to byte 247).
MessageLength(status) ==
  IF status < 192 THEN 3
  ELSE IF status < 224 THEN 2
  ELSE IF status < 240 THEN 3
  ELSE IF status \in {241, 243} THEN 2
  ELSE IF status = 242 THEN 3
  ELSE 1

\* Parser.feed_byte
FeedByte(ps, byte) ==
  IF byte >= 248
  THEN \* a real-time byte is a message of its own
       [ps EXCEPT !.parsed = Append(@, << byte >>)]
  ELSE IF byte = 247
  THEN \* end of sysex
       IF ps.inprog # << >> /\ ps.inprog[1] = 240
       THEN [inprog |-> << >>, parsed |-> Append(ps.parsed, Append(ps.inprog, byte))]
       ELSE ps
  ELSE IF byte >= 128
  THEN \* a status byte starts a new message
       IF byte # 240 /\ MessageLength(byte) = 1
       THEN [inprog |-> << >>, parsed |-> Append(ps.parsed, << byte >>)]
       ELSE [ps EXCEPT !.inprog = << byte >>]
  ELSE \* a data byte
       IF ps.inprog = << >>
       THEN ps
       ELSE IF ps.inprog[1] # 240 /\ Len(ps.inprog) + 1 = MessageLength(ps.inprog[1])
       THEN [inprog |-> << >>, parsed |-> Append(ps.parsed, Append(ps.inprog, byte))]
       ELSE [ps EXCEPT !.inprog = Append(@, byte)]

\* Parser.get_message: [message, parser]; message is <<>> for None.
GetMessage(ps) ==
  IF ps.parsed = << >>
  THEN [message |-> << >>, parser |-> ps]
  ELSE [message |-> << Head(ps.parsed) >>,
        parser |-> [ps EXCEPT !.parsed = Tail(@)]]

ParserOf(p) == [inprog |-> inprog[p], parsed |-> parsed[p]]

\* ------------------------------------------------------------ driver events
\* The event words (PmEvent.message) the driver delivers: note_on 90 40 7F,
\* program_change C0 05, clock F8, the first four bytes of a sysex
\* F0 01 02 03, and its end 04 05 F7.  All are below 2^31, where
\* "& 0xffffffff" changes nothing.
EventWords == {8339600, 1472, 248, 50463216, 16188676}

\* An event arrives on the open input stream of port p.
DriverEvent(p, word) ==
  /\ cls[p] = "Input"
  /\ stream[p] \in drvStreams
  /\ Len(arrived[p]) < MaxEvents
  /\ arrived' = [arrived EXCEPT ![p] = Append(@, word)]
  /\ lastOp' = Op("event", p, None, closed[p], "none", << >>, << >>, FALSE)
  /\ UNCHANGED <<lifeVars, inprog, parsed, nread, received, pc, credit>>

\* --------------------------------------------------------------- Input.poll
\* Fault variant: the four bytes are taken from the most significant down.
DecodeReversed(word) ==
  [i \in 1..4 |-> (word \div (256 ^ (4 - i))) % 256]

\* The four bytes poll() feeds for one event: byte = packed_message & 0xff,
\* then packed_message >>= 8, four times.
Decode(word) ==
  [i \in 1..4 |-> (word \div (256 ^ (i - 1))) % 256]

\* The parser after bytes i.. are fed, one feed_byte each (fed is the parser
\* after byte i).
RECURSIVE FeedBytes(_, _, _)
FeedBytes(ps, bytes, i) ==
  IF i > Len(bytes) THEN ps
  ELSE CHOOSE fed_all \in { FeedBytes(fed, bytes, i + 1) :
                               fed \in { FeedByte(ps, bytes[i]) } } : TRUE

\* The while loop of poll() over the events it reads, one Pm_Read each.
RECURSIVE PollFeed(_, _, _)
PollFeed(ps, events, i) ==
  IF i > Len(events) THEN ps
  ELSE CHOOSE fed_all \in { PollFeed(fed, events, i + 1) :
                               fed \in { FeedBytes(ps, Decode(events[i]), 1) } } : TRUE

\* Fault variant: poll() does not look at self.closed.
PollNeverClosed(is_closed) == FALSE

\* "if self.closed: return"
PollReturnsNone(is_closed) == is_closed

\* Fault variant: poll() returns the number of events it read.
PollCountsEvents(ps, nevents) == nevents

\* "return len(self._parser._parsed_messages)"
PollResult(ps, nevents) == Len(ps.parsed)

\* The driver calls of a poll() that reads k events and then either sees
\* Pm_Poll false or (failed) gets a negative Pm_Read.
PollCalls(k, failed) ==
  [i \in 1..(2 * k + (IF failed THEN 2 ELSE 1)) |->
     IF i % 2 = 1 THEN "Pm_Poll" ELSE "Pm_Read"]

\* poll() on port p.  fail_at = 0: every Pm_Read succeeds; fail_at = j > 0:
\* the j-th Pm_Read of this call returns a negative code.
PollOutcome(p, fail_at) ==
  LET npending == Len(arrived[p]) - nread[p]
      k == IF fail_at = 0 THEN npending ELSE fail_at - 1
      events == SubSeq(arrived[p], nread[p] + 1, nread[p] + k)
      ps == PollFeed(ParserOf(p), events, 1)
  IN
  IF PollReturnsNone(closed[p])
  THEN [parser |-> ParserOf(p), nread |-> nread[p], error |-> "none",
        result |-> << >>, calls |-> << >>]
  ELSE IF fail_at # 0
  THEN [parser |-> ps, nread |-> nread[p] + k, error |-> "NativeDriverError",
        result |-> << >>, calls |-> PollCalls(k, TRUE)]
  ELSE [parser |-> ps, nread |-> nread[p] + k, error |-> "none",
        result |-> << PollResult(ps, k) >>, calls |-> PollCalls(k, FALSE)]

\* port.poll() called by the program.
Poll(p, fail_at) ==
  LET out == PollOutcome(p, fail_at) IN
  /\ life[p] = "live"
  /\ cls[p] = "Input"
  /\ pc[p] = "idle"
  /\ fail_at \in 0..(Len(arrived[p]) - nread[p])
  /\ inprog' = [inprog EXCEPT ![p] = out.parser.inprog]
  /\ parsed' = [parsed EXCEPT ![p] = out.parser.parsed]
  /\ nread' = [nread EXCEPT ![p] = out.nread]
  /\ credit' = [credit EXCEPT ![p] = IF out.result = << >> THEN -1 ELSE out.result[1]]
  /\ lastOp' = Op("poll", p, None, closed[p], out.error, out.result, out.calls, FALSE)
  /\ UNCHANGED <<lifeVars, arrived, received, pc>>

\* ------------------------------------------------------------ Input.receive
\* Fault variant: the pending message is never returned right away.
ReceiveNeverPending(message) == FALSE

\* "if message: return message"
ReceiveHasPending(message) == message # << >>

\* Fault variant: the loop returns whenever poll() did not return None.
LoopReturnsOnNotNone(poll_result) == poll_result # << >>

\* Fault variant: the loop never leaves.
LoopNeverReturns(poll_result) == FALSE

\* "if self.poll():" -- None and 0 are false.
LoopReturns(poll_result) == poll_result # << >> /\ poll_result[1] # 0

\* port.receive() is called: get_message(), and return it if there is one;
\* else enter the wait loop.
ReceiveCall(p) ==
  LET got == GetMessage(ParserOf(p)) IN
  /\ life[p] = "live"
  /\ cls[p] = "Input"
  /\ pc[p] = "idle"
  /\ parsed' = [parsed EXCEPT ![p] = got.parser.parsed]
  /\ IF ReceiveHasPending(got.message)
     THEN /\ received' = [received EXCEPT ![p] = Append(@, got.message[1])]
          /\ credit' = [credit EXCEPT ![p] = IF @ > 0 THEN @ - 1 ELSE -1]
          /\ lastOp' = Op("receive", p, None, closed[p], "none", got.message, << >>, FALSE)
          /\ UNCHANGED pc
     ELSE /\ pc' = [pc EXCEPT ![p] = "waiting"]
          /\ credit' = [credit EXCEPT ![p] = -1]
          /\ lastOp' = Op("receive_blocked", p, None, closed[p], "none", << >>, << >>, FALSE)
          /\ UNCHANGED received
  /\ UNCHANGED <<lifeVars, inprog, arrived, nread>>

\* One turn of receive()'s loop: sleep, poll(), and return get_message() if
\* poll() was true.
ReceiveStep(p, fail_at) ==
  /\ pc[p] = "waiting"
  /\ fail_at \in 0..(Len(arrived[p]) - nread[p])
  /\ \E out \in { PollOutcome(p, fail_at) } :
     \E got \in { GetMessage(out.parser) } :
       /\ inprog' = [inprog EXCEPT ![p] = out.parser.inprog]
       /\ nread' = [nread EXCEPT ![p] = out.nread]
       /\ IF out.error # "none"
          THEN \* poll() raised, and so does receive()
               /\ parsed' = [parsed EXCEPT ![p] = out.parser.parsed]
               /\ pc' = [pc EXCEPT ![p] = "idle"]
               /\ lastOp' = Op("receive", p, None, closed[p], out.error, << >>, out.calls, TRUE)
               /\ UNCHANGED received
          ELSE IF LoopReturns(out.result)
          THEN /\ parsed' = [parsed EXCEPT ![p] = got.parser.parsed]
               /\ pc' = [pc EXCEPT ![p] = "idle"]
               /\ received' = [received EXCEPT ![p] =
                                 IF got.message = << >> THEN @ ELSE Append(@, got.message[1])]
               /\ lastOp' = Op("receive", p, None, closed[p], "none", got.message, out.calls, TRUE)
          ELSE /\ parsed' = [parsed EXCEPT ![p] = out.parser.parsed]
               /\ lastOp' = Op("receive_loop", p, None, closed[p], "none", << >>, out.calls, TRUE)
               /\ UNCHANGED <<pc, received>>
  /\ UNCHANGED <<lifeVars, arrived, credit>>

\* ------------------------------------------------------------------- SpecIO
\* One Input port, the driver's events on its stream, and the program
\* polling, receiving and closing.
IOPort == Ports \cap {1}

NewInput(p) ==
  \E nm \in Names, rc \in DriverReturns :
    \E default_id \in DefaultIds("Input") : PortInit(p, "Input", nm, default_id, rc)

EventArrives(p) == \E word \in EventWords : DriverEvent(p, word)

PollPort(p) == \E fail_at \in 0..MaxEvents : Poll(p, fail_at)

ReceiveTurn(p) == \E fail_at \in 0..MaxEvents : ReceiveStep(p, fail_at)

NextIO ==
  \E p \in IOPort :
    \/ NewInput(p)
    \/ CloseClean(p)
    \/ EventArrives(p)
    \/ PollPort(p)
    \/ ReceiveCall(p)
    \/ ReceiveTurn(p)

SpecIO == Init /\ [][NextIO]_vars

\* The thread inside receive() keeps running: "while 1: time.sleep(0.001)"
\* wakes up again and again, so a turn of the loop that stays possible is
\* eventually taken.
LoopFairness == \A p \in IOPort : WF_vars(ReceiveTurn(p))

SpecLive == Init /\ [][NextIO]_vars /\ LoopFairness

\* -------------------------------------------------------------- Output.send
\* The messages handed to send(): a message has a type and the bytes that
\* bytes() / bin() give (mido's Message model).  Byte values are sampled;
\* from the fourth byte on they are kept so small that the packed word stays
\* below 2^31, the largest integer the checker computes with.
ByteSamples == {0, 127, 144, 255}

OrdinaryBytes ==
  { b \in UNION { [1..n -> ByteSamples] : n \in 1..MaxMsgLen } :
      \A i \in 1..Len(b) : (i = 4 => b[i] < 128) /\ (i > 4 => b[i] = 0) }
  \cup { << 144, 64, 127 >> }

SysexBytes ==
  { << 240, 247 >>, << 240, 1, 2, 247 >>, << 240, 0, 1, 247 >>,
    << 240, 1, 2, 3, 4, 5, 247 >> }

Messages ==
  { [type |-> "note_on", bytes |-> b] : b \in OrdinaryBytes } \cup
  { [type |-> "sysex", bytes |-> b] : b \in SysexBytes }

\* Fault variant: send() does not look at self.closed.
SendNeverRejects(is_closed) == FALSE

\* "if self.closed: raise ValueError"
SendRejects(is_closed) == is_closed

\* "if message.type == 'sysex'"
SendIsSysex(message) == message.type = "sysex"

RECURSIVE UntilNul(_, _)
UntilNul(bytes, i) ==
  IF i > Len(bytes) \/ bytes[i] = 0 THEN SubSeq(bytes, 1, i - 1)
  ELSE UntilNul(bytes, i + 1)

\* Fault variant: the buffer is cut at its first zero byte.
SysexStringNulTerminated(message) == UntilNul(message.bytes, 1)

\* pm.c_char_p(bytes(message.bin())): the bytes of the message.
SysexString(message) == message.bytes

\* The loop over reversed(message.bytes()) from position i down to the
\* first byte: packed_message <<= 8, then packed_message |= byte (the low
\* eight bits are zero after the shift, so the OR adds the byte).
RECURSIVE PackLoop(_, _, _)
PackLoop(packed_message, bytes, i) ==
  IF i < 1 THEN packed_message
  ELSE PackLoop(packed_message * 256 + bytes[i], bytes, i - 1)

\* Fault variant: the loop misses the last byte of the message.
PackWithoutLast(bytes) == PackLoop(0, bytes, Len(bytes) - 1)

\* The packed word send() writes for an ordinary message.
Pack(bytes) == PackLoop(0, bytes, Len(bytes))

\* port.send(message) on an Output port; rc is the driver's return from the
\* write call.
Send(p, message, rc) ==
  LET sysexWrite == [timestamp |-> 0, data |-> SysexString(message)]
      shortWrite == [timestamp |-> 0, data |-> Pack(message.bytes)]
      err == IF CheckErrorRaises(rc) THEN "NativeDriverError" ELSE "none"
  IN
  /\ life[p] = "live"
  /\ cls[p] = "Output"
  /\ lastOp' =
       IF SendRejects(closed[p])
       THEN Op("send", p, message, closed[p], "SendOnClosedPort", << >>, << >>, FALSE)
       ELSE IF SendIsSysex(message)
       THEN Op("send", p, message, closed[p], err, << sysexWrite >>,
               << "Pm_WriteSysEx" >>, FALSE)
       ELSE Op("send", p, message, closed[p], err, << shortWrite >>,
               << "Pm_WriteShort" >>, FALSE)
  /\ UNCHANGED <<lifeVars, ioVars>>

\* ------------------------------------------------------------------ SpecOut
\* One Output port and the program sending on it and closing it.
NewOutput(p) ==
  \E nm \in Names, rc \in DriverReturns :
    \E default_id \in DefaultIds("Output") : PortInit(p, "Output", nm, default_id, rc)

SendMessage(p) == \E message \in Messages, rc \in DriverReturns : Send(p, message, rc)

NextOut ==
  \E p \in IOPort :
    \/ NewOutput(p)
    \/ CloseClean(p)
    \/ SendMessage(p)

SpecOut == Init /\ [][NextOut]_vars

\* ---------------------------------------------------------------- SpecClose
\* One port of either class, closed and collected with a driver whose
\* Pm_Close may fail.
NextClose ==
  \E p \in IOPort :
    \/ NewPort(p)
    \/ ClosePort(p)
    \/ Collect(p)
    \/ Enter(p)
    \/ LeaveScope(p)

SpecClose == Init /\ [][NextClose]_vars

\* =================================================================== claims
\* The record a device of the table has the direction a port class asks for.
HasDirection(rec, c) == IF c = "Input" THEN rec.is_input ELSE rec.is_output

\* The ports that are Open.
OpenPorts == {p \in Ports : ~closed[p]}

\* C1: when a port is used as a scoped acquisition, after __exit__ (normal
\* or by exception) the port is Closed: Pm_Close was called for its handle
\* and its device's opened flag is false.
C1_ExitClosesPort ==
  lastOp.op = "exit" =>
    /\ closed[lastOp.port]
    /\ stream[lastOp.port] \notin drvStreams
    /\ ~device[lastOp.port][1].opened

\* C2: close() is idempotent.  A successful close() of an Open port leaves
\* it Closed with device.opened false; a close() of a Closed port (also of
\* one whose constructor raised, closed by __del__) makes no driver call and
\* changes nothing of the port or the driver.
C2_CloseIdempotent ==
  [][ lastOp'.op \in {"close", "del"} =>
        LET p == lastOp'.port IN
        /\ (~closed[p] /\ lastOp'.error = "none") =>
              /\ closed'[p]
              /\ ~device'[p][1].opened
              /\ lastOp'.calls = << "Pm_Close" >>
        /\ closed[p] =>
              /\ lastOp'.calls = << >>
              /\ lastOp'.error = "none"
              /\ UNCHANGED <<closed, device, stream, name, drvOpened, drvStreams,
                             initialized, pmInitCalls, ioVars>>
    ]_vars

C2_Witness ==
  /\ lastOp.op = "close"
  /\ lastOp.wasClosed
  /\ life[lastOp.port] = "live"
  /\ stream[lastOp.port] # 0
  /\ closed[lastOp.port]

\* C3: whenever the constructor fails (NoDefaultDevice, UnknownPort,
\* PortAlreadyOpen, or a negative return of the stream-open call) the port
\* stays Closed and no opened flag changes: not the driver's, not another
\* port's record, and the port's own record (if it has one) keeps the value
\* read from the driver; the close() that __del__ then runs makes no driver
\* call.
C3_FailedOpenStaysClosed ==
  [][ LET p == lastOp'.port IN
      /\ ( /\ lastOp'.op = "open"
           /\ \/ lastOp'.error # "none"
              \/ (lastOp'.result # << >> /\ lastOp'.result[1] < 0) ) =>
            /\ closed'[p]
            /\ life'[p] = "failed"
            /\ drvOpened' = drvOpened
            /\ drvStreams' = drvStreams
            /\ \A q \in Ports \ {p} : device'[q] = device[q]
            /\ device'[p] # << >> =>
                 device'[p][1].opened = drvOpened[device'[p][1].device_id]
      /\ (lastOp'.op = "del" /\ life[p] = "failed") =>
            /\ lastOp'.calls = << >>
            /\ UNCHANGED <<drvOpened, drvStreams>>
    ]_vars

C3_Witness ==
  /\ lastOp.op = "del"
  /\ life[lastOp.port] = "dead"
  /\ stream[lastOp.port] = 0
  /\ device[lastOp.port] # << >>
  /\ lastOp.calls = << >>

\* C4: a constructor called with a name that no record of the requested
\* direction has raises UnknownPort, never PortAlreadyOpen, and binds no
\* device, whatever the opened flags of same-named records of the other
\* direction.
C4_WrongDirectionIsUnknown ==
  ( /\ lastOp.op = "open"
    /\ lastOp.arg # None
    /\ ~ \E i \in 1..Len(DeviceTable) :
           /\ DeviceTable[i].name = lastOp.arg
           /\ HasDirection(DeviceTable[i], cls[lastOp.port]) ) =>
    /\ lastOp.error = "UnknownPort"
    /\ device[lastOp.port] = << >>
    /\ closed[lastOp.port]
    /\ life[lastOp.port] = "failed"

C4_Witness ==
  /\ lastOp.op = "open"
  /\ lastOp.arg = "B"
  /\ cls[lastOp.port] = "Input"
  /\ drvOpened[3]
  /\ lastOp.error = "UnknownPort"

\* C5: at most one Open port is bound to a given device_id at any time.
C5_OneOpenPortPerDevice ==
  \A p, q \in OpenPorts :
    p # q => device[p][1].device_id # device[q][1].device_id

\* The bytes of an event word, byte i in bits [8i, 8i+8).
WordBytes(word) ==
  << word % 256, (word \div 256) % 256, (word \div 65536) % 256,
     (word \div 16777216) % 256 >>

\* The Parser state after the bytes of the given events, fed in order to a
\* new Parser.
RECURSIVE ParseEvents(_, _, _)
ParseEvents(ps, events, i) ==
  IF i > Len(events) THEN ps
  ELSE ParseEvents(FeedBytes(ps, WordBytes(events[i]), 1), events, i + 1)

MessagesOf(events) ==
  ParseEvents([inprog |-> << >>, parsed |-> << >>], events, 1).parsed

\* The step is a call of receive() on port p (not a turn of its loop).
IsReceiveCall(p) ==
  /\ lastOp'.op \in {"receive", "receive_blocked"}
  /\ lastOp'.port = p
  /\ pc[p] = "idle"

\* C6: poll() on a Closed Input port returns None, makes no driver call
\* (no Pm_Poll, no Pm_Read) and feeds no byte to the Parser.
C6_PollOnClosed ==
  [][ (lastOp'.op = "poll" /\ closed[lastOp'.port]) =>
        /\ lastOp'.result = << >>
        /\ lastOp'.error = "none"
        /\ lastOp'.calls = << >>
        /\ UNCHANGED <<inprog, parsed, nread, drvOpened, drvStreams>>
    ]_vars

C6_Witness ==
  /\ lastOp.op = "poll"
  /\ lastOp.wasClosed
  /\ stream[lastOp.port] # 0
  /\ nread[lastOp.port] < Len(arrived[lastOp.port])
  /\ lastOp.result = << >>

\* C7: on an Open Input port poll() returns the number of messages in the
\* Parser buffer when it returns (not the number of events it read), and
\* after poll() returned n exactly the next n receive() calls return
\* without blocking: a receive() called with credit left returns at once,
\* one called with none left sleeps.
C7_PollCountsBuffered ==
  [][ /\ (lastOp'.op = "poll" /\ ~closed[lastOp'.port] /\ lastOp'.error = "none") =>
           lastOp'.result = << Len(parsed'[lastOp'.port]) >>
      /\ \A p \in Ports :
           (IsReceiveCall(p) /\ credit[p] >= 0) =>
              /\ credit[p] > 0 => (lastOp'.op = "receive" /\ ~lastOp'.slept
                                    /\ credit'[p] = credit[p] - 1)
              /\ credit[p] = 0 => (lastOp'.op = "receive_blocked" /\ pc'[p] = "waiting")
    ]_vars

C7_Witness ==
  /\ lastOp.op = "poll"
  /\ lastOp.result = << 2 >>
  /\ Len(lastOp.calls) = 3
  /\ Len(parsed[lastOp.port]) = 2

\* C8: receive() called while the Parser holds a message pops and returns
\* the oldest one without sleeping and without a driver call, on an Open
\* and on a Closed port.
C8_ReceiveBuffered ==
  [][ \A p \in Ports :
        (IsReceiveCall(p) /\ parsed[p] # << >>) =>
           /\ lastOp'.op = "receive"
           /\ lastOp'.result = << Head(parsed[p]) >>
           /\ parsed'[p] = Tail(parsed[p])
           /\ ~lastOp'.slept
           /\ lastOp'.calls = << >>
           /\ UNCHANGED <<nread, inprog>>
    ]_vars

C8_Witness ==
  /\ lastOp.op = "receive"
  /\ lastOp.wasClosed
  /\ lastOp.result # << >>
  /\ ~lastOp.slept
  /\ nread[lastOp.port] < Len(arrived[lastOp.port])

\* C9: the messages receive() has returned, followed by those still in the
\* Parser buffer, are exactly the messages the events read so far complete,
\* in arrival order: nothing lost, duplicated or reordered.
C9_FifoNoLoss ==
  \A p \in Ports :
    received[p] \o parsed[p] = MessagesOf(SubSeq(arrived[p], 1, nread[p]))

\* Three events drained by one poll(), then two receive() calls.
C9_Witness ==
  \E p \in Ports :
    /\ arrived[p] = << 8339600, 1472, 248 >>
    /\ nread[p] = 3
    /\ received[p] = << << 144, 64, 127 >>, << 192, 5 >> >>
    /\ parsed[p] = << << 248 >> >>
    /\ credit[p] = 1
    /\ lastOp.op = "receive"
    /\ ~lastOp.slept

\* C10: every return of receive() delivers a message, appended once to what
\* was received and taken off the front of the Parser buffer; a receive()
\* that found the buffer empty returns only after a poll() that read events.
C10_NoSpuriousReturn ==
  [][ (lastOp'.op = "receive" /\ lastOp'.error = "none") =>
        LET p == lastOp'.port IN
        /\ lastOp'.result # << >>
        /\ received'[p] = Append(received[p], lastOp'.result[1])
        /\ parsed[p] # << >> => parsed'[p] = Tail(parsed[p])
        /\ parsed[p] = << >> =>
             /\ lastOp'.slept
             /\ nread'[p] > nread[p]
             /\ << lastOp'.result[1] >> \o parsed'[p] =
                  SubSeq(MessagesOf(SubSeq(arrived[p], 1, nread'[p])),
                         Len(received[p]) + 1,
                         Len(received[p]) + 1 + Len(parsed'[p]))
    ]_vars

C10_Witness ==
  /\ lastOp.op = "receive"
  /\ lastOp.slept
  /\ lastOp.error = "none"
  /\ lastOp.result # << >>
  /\ Len(lastOp.calls) >= 5

\* The step is a send() on an Open port.
SendOnOpen == lastOp.op = "send" /\ ~lastOp.wasClosed

\* C11: send() on a Closed Output port raises SendOnClosedPort (ValueError)
\* and makes no driver write, short or long, for ordinary and for sysex
\* messages.
C11_SendOnClosed ==
  (lastOp.op = "send" /\ lastOp.wasClosed) =>
    /\ lastOp.error = "SendOnClosedPort"
    /\ lastOp.calls = << >>
    /\ lastOp.result = << >>

C11_Witness ==
  /\ lastOp.op = "send"
  /\ lastOp.wasClosed
  /\ lastOp.arg.type = "sysex"
  /\ closed[lastOp.port]
  /\ stream[lastOp.port] # 0

\* C12: send() of a sysex message on an Open Output port makes exactly one
\* Pm_WriteSysEx call with the message's whole byte buffer, unchanged, and
\* timestamp 0, and no Pm_WriteShort call.
C12_SysexWrite ==
  (SendOnOpen /\ lastOp.arg.type = "sysex") =>
    /\ lastOp.calls = << "Pm_WriteSysEx" >>
    /\ lastOp.result = << [timestamp |-> 0, data |-> lastOp.arg.bytes] >>

C12_Witness ==
  /\ SendOnOpen
  /\ lastOp.arg.bytes = << 240, 0, 1, 247 >>
  /\ lastOp.calls = << "Pm_WriteSysEx" >>
  /\ lastOp.error = "none"

\* C13: send() of an ordinary message of 1..4 bytes on an Open Output port
\* makes exactly one Pm_WriteShort call with timestamp 0 and a word that
\* has byte i of the message in bits [8i, 8i+8) and zero above; 90 40 7F is
\* written as 0x007F4090 = 8339600.
C13_ShortWrite ==
  (SendOnOpen /\ lastOp.arg.type # "sysex" /\ Len(lastOp.arg.bytes) \in 1..4) =>
    /\ lastOp.calls = << "Pm_WriteShort" >>
    /\ lastOp.result[1].timestamp = 0
    /\ \A i \in 0..3 :
         (lastOp.result[1].data \div (256 ^ i)) % 256 =
           (IF i < Len(lastOp.arg.bytes) THEN lastOp.arg.bytes[i + 1] ELSE 0)
    /\ lastOp.result[1].data >= 0
    /\ lastOp.result[1].data \div 16777216 < 256
    /\ lastOp.arg.bytes = << 144, 64, 127 >> => lastOp.result[1].data = 8339600

C13_Witness ==
  /\ SendOnOpen
  /\ lastOp.arg.bytes = << 144, 64, 127 >>
  /\ lastOp.calls = << "Pm_WriteShort" >>
  /\ lastOp.result[1].data = 8339600

\* C14: round trip of the codec: for a byte sequence of length 1..4, the
\* four bytes poll() decodes from the word send() packed begin with the
\* sequence.
C14_RoundTrip ==
  (SendOnOpen /\ lastOp.arg.type # "sysex" /\ Len(lastOp.arg.bytes) \in 1..4) =>
    SubSeq(Decode(lastOp.result[1].data), 1, Len(lastOp.arg.bytes)) = lastOp.arg.bytes

C14_Witness ==
  /\ SendOnOpen
  /\ lastOp.arg.bytes = << 255, 144, 0, 127 >>
  /\ Decode(lastOp.result[1].data) = << 255, 144, 0, 127 >>

\* C15: send() of an ordinary message of more than 4 bytes raises and makes
\* no Pm_WriteShort call.
C15_LongMessageFailsFast ==
  (SendOnOpen /\ lastOp.arg.type # "sysex" /\ Len(lastOp.arg.bytes) > 4) =>
    /\ lastOp.error # "none"
    /\ lastOp.calls = << >>

\* The positions of the device table whose record has the name and the
\* direction of port class c.
Candidates(nm, c) ==
  { i \in 1..Len(DeviceTable) :
      DeviceTable[i].name = nm /\ HasDirection(DeviceTable[i], c) }

FirstCandidate(nm, c) ==
  CHOOSE i \in Candidates(nm, c) : \A j \in Candidates(nm, c) : i <= j

\* C16: a constructor called with a name takes the first record, in table
\* order, with that name and the requested direction.  If that record is
\* opened it raises PortAlreadyOpen at once, also when a later matching
\* record is free; otherwise the port is bound to exactly that record.
C16_FirstCandidateDecides ==
  [][ LET p == lastOp'.port IN
      ( /\ lastOp'.op = "open"
        /\ lastOp'.arg # None
        /\ Candidates(lastOp'.arg, cls'[p]) # {} ) =>
        LET id == FirstCandidate(lastOp'.arg, cls'[p]) - 1 IN
        IF drvOpened[id]
        THEN /\ lastOp'.error = "PortAlreadyOpen"
             /\ device'[p] = << >>
             /\ closed'[p]
        ELSE /\ lastOp'.error \in {"none", "NativeDriverError"}
             /\ device'[p] # << >>
             /\ device'[p][1].device_id = id
             /\ lastOp'.error = "none" => (~closed'[p] /\ device'[p][1].opened)
    ]_vars

C16_Witness ==
  /\ lastOp.op = "open"
  /\ lastOp.arg = "A"
  /\ cls[lastOp.port] = "Input"
  /\ lastOp.error = "PortAlreadyOpen"
  /\ drvOpened[0]
  /\ ~drvOpened[1]

\* C17: Pm_Close is called at most once with a port's stream, over every
\* sequence of close() calls and the close at finalization, also when a
\* Pm_Close call returned a negative code.
C17_CloseCalledOnce ==
  \A p \in Ports : closeCalls[p] <= 1

\* The events the driver holds for p that poll() has not read complete at
\* least one message: with every Pm_Read succeeding, poll() would be true.
PendingCompleteMessage(p) ==
  LET out == PollOutcome(p, 0) IN
  /\ out.result # << >>
  /\ out.result[1] > 0

\* C18: a receive() waiting in its loop on an open port, when the driver
\* holds events that complete a message, eventually returns a message --
\* unless the port is closed or a driver read fails.
C18_BlockingReceiveReturns ==
  \A p \in IOPort :
    (pc[p] = "waiting" /\ ~closed[p] /\ PendingCompleteMessage(p))
      ~> \/ /\ lastOp.op = "receive"
            /\ lastOp.port = p
            /\ lastOp.slept
            /\ lastOp.error = "none"
            /\ lastOp.result # << >>
         \/ closed[p]
         \/ /\ lastOp.op = "receive"
            /\ lastOp.port = p
            /\ lastOp.error = "NativeDriverError"

\* A receive() that waited in the loop has read events from the open port and
\* returned the message they completed.
C18_Witness ==
  /\ lastOp.op = "receive"
  /\ lastOp.slept
  /\ lastOp.error = "none"
  /\ lastOp.result # << >>
  /\ ~lastOp.wasClosed
  /\ Len(lastOp.calls) > 0
  /\ pc[lastOp.port] = "idle"

\* A close() by another thread has just closed port p while a receive()
\* was waiting in its loop.
ClosedWhileWaiting(p) ==
  /\ pc[p] = "waiting"
  /\ closed[p]
  /\ lastOp.op = "close"
  /\ lastOp.port = p
  /\ ~lastOp.wasClosed

\* C19: when another thread closes the port while a receive() is waiting in
\* its loop, the receive() does not wait forever: it comes to an end.
C19_ClosedPortEndsReceive ==
  \A p \in IOPort :
    ClosedWhileWaiting(p) ~> (pc[p] = "idle")

\* A constructor has run: some port object exists or has existed.
SomePortConstructed == \E p \in Ports : life[p] # "unborn"

\* C20: once any port constructor has run, the driver has been initialized
\* exactly once (Pm_Initialize called by the first _initialize(), ahead of
\* the stream-open call, and by no later one).
C20_InitializedExactlyOnce ==
  SomePortConstructed => (pmInitCalls = 1 /\ initialized)

====
